---- MODULE Spec2Model ----
(***************************************************************************)
(* doublegit: the snapshot / retention engine of update_with_date.         *)
(*                                                                         *)
(* One run = open the ledger transaction, fetch, close the ledger rows of  *)
(* removed and changed refs, open rows for changed and new refs, create a  *)
(* keeper per frontier ref (Pass 1), prune superfluous branch keepers      *)
(* (Pass 2), commit.  Every `?` of the source is a point where the run may *)
(* return early; the transaction is then dropped, which rolls it back.     *)
(***************************************************************************)
EXTENDS Integers, Sequences, FiniteSets, TLC

----------------------------------------------------------------------------
(* Bounds of the model *)

\* Runs of update_with_date, and ref updates the remote undergoes in all
MaxRuns == 3
MaxPushes == 4
\* Horizon of the wall clock, in half seconds
MaxNow == 4

----------------------------------------------------------------------------
(* The universe the backend is exercised on *)

\* struct Ref { name, tag }; a String is the sequence of its characters
Ref(n, t) == [name |-> n, tag |-> t]

\* The refs of the remote: a branch and a tag that share a name, and a
\* second branch
Refs == {Ref(<<"x">>, FALSE), Ref(<<"x">>, TRUE), Ref(<<"y">>, FALSE)}

\* Commit objects and their parent relation: a main line c1 - c2 - c4 and a
\* side branch c3 forked at c1.
Commits == {"c1", "c2", "c3", "c4"}
Parents == {<<"c1", "c2">>, <<"c2", "c4">>, <<"c1", "c3">>}

\* Annotated tag objects and the commit each one points at.
TagObjs == {"t2"}
TagTarget == [t \in TagObjs |-> "c2"]

\* The commits the remote names directly with a (lightweight) tag.
LightTagged == {"c1"}

Shas == Commits \cup TagObjs

\* The commit an object id names once tag objects are dereferenced.
Peel(sha) == IF sha \in TagObjs THEN TagTarget[sha] ELSE sha

RECURSIVE AncestorsOf(_)
\* Commits reachable from commit c by following parents, c included.
AncestorsOf(c) ==
    {c} \cup UNION {AncestorsOf(p) : p \in {q \in Commits : <<q, c>> \in Parents}}

\* a is equal to or an ancestor of b (both dereferenced to commits).
IsAncestor(a, b) == Peel(a) \in AncestorsOf(Peel(b))

----------------------------------------------------------------------------
(* Ref *)

\* An absent value (None, SQL NULL) and a present one
NULL == <<>>
Some(d) == <<d>>

\* Result<Ref, Error>
Ok(v) == [ok |-> TRUE, val |-> v]
Err(msg) == [ok |-> FALSE, val |-> msg]

\* The string literal "origin"
Origin == <<"o", "r", "i", "g", "i", "n">>

\* Ref::fullname: format!("origin/{}", self.name) for a branch, the name
\* itself for a tag
fullname(r) == IF r.tag THEN r.name ELSE Origin \o <<"/">> \o r.name

\* (mutant) the string is split at its last '/'
find_Last(s, ch) ==
    IF \E k \in 1..Len(s) : s[k] = ch
    THEN Some((CHOOSE k \in 1..Len(s) :
                  s[k] = ch /\ \A j \in (k + 1)..Len(s) : s[j] # ch) - 1)
    ELSE NULL

\* str::find: the index (from 0) of the first occurrence of ch in s, or None
find(s, ch) ==
    IF \E k \in 1..Len(s) : s[k] = ch
    THEN Some((CHOOSE k \in 1..Len(s) :
                  s[k] = ch /\ \A j \in 1..(k - 1) : s[j] # ch) - 1)
    ELSE NULL

\* &s[from..to]: indices from 0, `to` exclusive
Slice(s, from, to) == SubSeq(s, from + 1, to)

\* Ref::parse_remote_ref
parse_remote_ref(refname) ==
    LET idx == find(refname, "/")
    IN  IF idx = NULL THEN Err("Invalid remote ref")
        ELSE LET remote == Slice(refname, 0, idx[1])
             IN  IF remote # Origin THEN Err("Remote ref has invalid remote")
                 ELSE Ok(Ref(Slice(refname, idx[1] + 1, Len(refname)), FALSE))

----------------------------------------------------------------------------
(* State *)

VARIABLES
    known,      \* backend: remote refs as of the last fetch, Ref -> sha
    keepers,    \* backend: the keeper references that exist
    dbExists,   \* gitarchive.sqlite3 exists (table refs created)
    ledger,     \* committed rows of table refs
    tx,         \* rows of table refs as seen inside the open transaction
    pc,         \* position of the run: idle, fetch, close, open, pass1, pass2, commit
    idx,        \* index in the loop at pc
    out,        \* result of git::fetch: [removed, changed, new], each a sequence
    now,        \* wall clock, in half seconds
    date,       \* the run's formatted date string (whole seconds)
    runs,       \* number of runs started
    pushes,     \* number of ref updates of the remote that were fetched
    ev,         \* the last operation the run performed
    start,      \* backend and ledger as they were when the run began
    naming,     \* a string run through Ref::parse_remote_ref and Ref::fullname
    aborted     \* since the last commit a run returned an error after its fetch
                \* had changed the refs the backend knows

vars == <<known, keepers, dbExists, ledger, tx, pc, idx, out, now, date, runs,
          pushes, ev, start, naming, aborted>>

\* A row of table refs.  No two rows of a table agree on name, from_date, sha
\* and tag (at most two runs share a second), so the table is a set of rows.
Row(n, f, t, s, g) ==
    [name |-> n, from_date |-> f, to_date |-> t, sha |-> s, tag |-> g]

IsOpen(row) == row.to_date = NULL

\* format!("keep-{}", sha): the branch-style keeper of sha, a branch whose tip is sha
KeepBranch(sha) == [style |-> "branch", sha |-> sha]

\* format!("refs/kept-tags/tag-{}", sha): the tag-style keeper of sha
KeptTag(sha) == [style |-> "tag", sha |-> sha]

\* The local branches of the repository
Branches(K) == {k \in K : k.style = "branch"}

NoStart == [keepers |-> {}, ledger |-> {}, known |-> <<>>]

NoOut == [removed |-> <<>>, changed |-> <<>>, new |-> <<>>]

Event(op, ref, sha) == [op |-> op, ref |-> ref, sha |-> sha]
NoRef == Ref(<<>>, FALSE)

\* No string is being converted
NoNaming == [step |-> "none", refname |-> <<>>, parsed |-> Err(""), full |-> <<>>]

Range(s) == {s[k] : k \in DOMAIN s}

\* All orders in which a set can be iterated
Orders(S) == {s \in [1..Cardinality(S) -> S] : Range(s) = S}

----------------------------------------------------------------------------
(* Backend capability (git module) *)

\* The values a remote ref can take: branches name commits, tags name
\* commits (lightweight) or tag objects (annotated).
Targets(r) == IF r.tag THEN LightTagged \cup TagObjs ELSE Commits

RemoteStates ==
    UNION {{f \in [D -> Shas] : \A r \in D : f[r] \in Targets(r)} : D \in SUBSET Refs}

\* git::fetch: the classification of the refs of the remote against `known`
DiffNew(old, new) == DOMAIN new \ DOMAIN old
DiffRemoved(old, new) == DOMAIN old \ DOMAIN new
DiffChanged(old, new) == {r \in DOMAIN old \cap DOMAIN new : old[r] # new[r]}

DiffSize(old, new) ==
    Cardinality(DiffNew(old, new) \cup DiffRemoved(old, new) \cup DiffChanged(old, new))

\* git::get_sha: resolve a full reference name; a tag of that name wins over
\* a remote-tracking branch.
get_sha(full) ==
    LET tags == {r \in DOMAIN known : r.tag /\ fullname(r) = full}
        rems == {r \in DOMAIN known : ~r.tag /\ fullname(r) = full}
    IN  IF tags # {} THEN known[CHOOSE r \in tags : TRUE]
        ELSE known[CHOOSE r \in rems : TRUE]

\* git::is_annotated_tag
is_annotated_tag(sha) == sha \in TagObjs

\* git::make_ref and git::make_branch: create the reference, or move it if
\* it exists
make_ref(K, keeper) == K \cup {keeper}
make_branch(K, keeper) == K \cup {keeper}

\* git::included_branches: branches whose tip is an ancestor of sha
included_branches(K, sha) == {k \in Branches(K) : IsAncestor(k.sha, sha)}

\* git::including_branches: branches that contain sha
including_branches(K, sha) == {k \in Branches(K) : IsAncestor(sha, k.sha)}

\* git::delete_branch
delete_branch(K, br) == K \ {br}

----------------------------------------------------------------------------
(* update_with_date *)

closeList == out.removed \o out.changed
frontier == out.changed \o out.new

\* date.format("%Y-%m-%d %H:%M:%S"): sub-second precision is dropped
format(t) == t \div 2

\* (mutant) the loop of Pass 2 stops one ref short of the end of the frontier
PosAfter_Pass2SkipsLast(o, p, k) ==
    LET cl == Len(o.removed) + Len(o.changed)
        fr == Len(o.changed) + Len(o.new)
    IN  CASE p = "fetch" -> IF cl > 0 THEN <<"close", 1>>
                            ELSE IF fr > 0 THEN <<"open", 1>> ELSE <<"commit", 1>>
          [] p = "close" -> IF k < cl THEN <<"close", k + 1>>
                            ELSE IF fr > 0 THEN <<"open", 1>> ELSE <<"commit", 1>>
          [] p = "open"  -> IF k < fr THEN <<"open", k + 1>> ELSE <<"pass1", 1>>
          [] p = "pass1" -> IF k < fr THEN <<"pass1", k + 1>>
                            ELSE IF fr > 1 THEN <<"pass2", 1>> ELSE <<"commit", 1>>
          [] p = "pass2" -> IF k < fr - 1 THEN <<"pass2", k + 1>> ELSE <<"commit", 1>>

\* (mutant) one loop over the frontier creates the keeper of a ref and
\* prunes for it before it turns to the next ref
PosAfter_PassesInterleaved(o, p, k) ==
    LET cl == Len(o.removed) + Len(o.changed)
        fr == Len(o.changed) + Len(o.new)
    IN  CASE p = "fetch" -> IF cl > 0 THEN <<"close", 1>>
                            ELSE IF fr > 0 THEN <<"open", 1>> ELSE <<"commit", 1>>
          [] p = "close" -> IF k < cl THEN <<"close", k + 1>>
                            ELSE IF fr > 0 THEN <<"open", 1>> ELSE <<"commit", 1>>
          [] p = "open"  -> IF k < fr THEN <<"open", k + 1>> ELSE <<"pass1", 1>>
          [] p = "pass1" -> <<"pass2", k>>
          [] p = "pass2" -> IF k < fr THEN <<"pass1", k + 1>> ELSE <<"commit", 1>>

\* Position after the out' of a fetch or after iteration k of loop p ends
PosAfter(o, p, k) ==
    LET cl == Len(o.removed) + Len(o.changed)
        fr == Len(o.changed) + Len(o.new)
    IN  CASE p = "fetch" -> IF cl > 0 THEN <<"close", 1>>
                            ELSE IF fr > 0 THEN <<"open", 1>> ELSE <<"commit", 1>>
          [] p = "close" -> IF k < cl THEN <<"close", k + 1>>
                            ELSE IF fr > 0 THEN <<"open", 1>> ELSE <<"commit", 1>>
          [] p = "open"  -> IF k < fr THEN <<"open", k + 1>> ELSE <<"pass1", 1>>
          [] p = "pass1" -> IF k < fr THEN <<"pass1", k + 1>> ELSE <<"pass2", 1>>
          [] p = "pass2" -> IF k < fr THEN <<"pass2", k + 1>> ELSE <<"commit", 1>>

\* The loop moves on after iteration idx of the loop at pc
Advance ==
    /\ pc' = PosAfter(out, pc, idx)[1]
    /\ idx' = PosAfter(out, pc, idx)[2]

\* Open database, create the table on first use, begin the transaction
Begin ==
    /\ pc = "idle"
    /\ runs < MaxRuns
    /\ \E d \in {1, 2} :
         /\ now + d <= MaxNow
         /\ now' = now + d
         /\ date' = format(now + d)
    /\ runs' = runs + 1
    /\ dbExists' = TRUE
    /\ tx' = ledger
    /\ pc' = "fetch"
    /\ idx' = 1
    /\ out' = NoOut
    /\ ev' = Event("begin", NoRef, "")
    /\ start' = [keepers |-> keepers, ledger |-> ledger, known |-> known]
    /\ aborted' = (ev.op # "commit" /\ aborted)
    /\ UNCHANGED <<naming, known, keepers, ledger, pushes>>

\* let out = git::fetch(repository)?
Fetch ==
    /\ pc = "fetch"
    /\ \E remote \in RemoteStates :
         /\ pushes' = pushes + DiffSize(known, remote)
         /\ pushes' <= MaxPushes
         /\ known' = remote
         /\ \E rm \in Orders(DiffRemoved(known, remote)),
               ch \in Orders(DiffChanged(known, remote)),
               nw \in Orders(DiffNew(known, remote)) :
              /\ out' = [removed |-> rm, changed |-> ch, new |-> nw]
              /\ pc' = PosAfter(out', "fetch", 0)[1]
    /\ idx' = 1
    /\ ev' = Event("fetch", NoRef, "")
    /\ UNCHANGED <<naming, aborted, keepers, dbExists, ledger, tx, now, date, runs, start>>

\* UPDATE refs SET to_date=? WHERE name=? ORDER BY from_date DESC LIMIT 1
\* The rows the statement may pick: those of the name with the greatest
\* from_date (the order among equal from_date is not defined).
UpdateTargets(rows, name) ==
    {r \in rows : /\ r.name = name
                  /\ \A q \in rows : q.name = name => q.from_date <= r.from_date}

SetToDate(rows, r, d) == (rows \ {r}) \cup {[r EXCEPT !.to_date = Some(d)]}

\* one iteration of: for ref_ in out.removed.iter().chain(out.changed.iter())
Close ==
    /\ pc = "close"
    /\ idx <= Len(closeList)
    /\ LET ref == closeList[idx]
           cand == UpdateTargets(tx, ref.name)
       IN  /\ IF cand = {} THEN tx' = tx
              ELSE \E r \in cand : tx' = SetToDate(tx, r, date)
           /\ ev' = Event("close", ref, "")
    /\ Advance
    /\ UNCHANGED <<naming, aborted, known, keepers, dbExists, ledger, out, now, date, runs, pushes,
                   start>>

\* (mutant) INSERT OR REPLACE with the name as key
InsertRow_ReplacesName(rows, ref, d, sha) ==
    {r \in rows : r.name # ref.name} \cup {Row(ref.name, d, NULL, sha, ref.tag)}

\* INSERT INTO refs(name, from_date, to_date, sha, tag) VALUES(?, ?, NULL, ?, ?)
InsertRow(rows, ref, d, sha) ==
    rows \cup {Row(ref.name, d, NULL, sha, ref.tag)}

\* one iteration of the first: for ref_ in out.changed.iter().chain(out.new.iter())
Open ==
    /\ pc = "open"
    /\ idx <= Len(frontier)
    /\ LET ref == frontier[idx]
           sha == get_sha(fullname(ref))
       IN  /\ tx' = InsertRow(tx, ref, date, sha)
           /\ ev' = Event("open", ref, sha)
    /\ Advance
    /\ UNCHANGED <<naming, aborted, known, keepers, dbExists, ledger, out, now, date, runs, pushes,
                   start>>

\* The keeper Pass 1 makes for a ref: a tag-style ref for an annotated tag,
\* a branch otherwise
KeeperOf(ref, sha) ==
    IF ref.tag /\ is_annotated_tag(sha) THEN KeptTag(sha) ELSE KeepBranch(sha)

\* one iteration of: Create refs to prevent garbage collection
Pass1 ==
    /\ pc = "pass1"
    /\ idx <= Len(frontier)
    /\ LET ref == frontier[idx]
           sha == get_sha(fullname(ref))
           keeper == KeeperOf(ref, sha)
       IN  IF keeper.style = "tag"
           THEN /\ keepers' = make_ref(keepers, keeper)
                /\ ev' = Event("make_ref", ref, sha)
           ELSE /\ keepers' = make_branch(keepers, keeper)
                /\ ev' = Event("make_branch", ref, sha)
    /\ Advance
    /\ UNCHANGED <<naming, aborted, known, dbExists, ledger, tx, out, now, date, runs, pushes, start>>

\* (mutant) the inner loop runs over every keeper reference that sha
\* includes, not over the branches only
Superfluous_AllRefs(K, sha) ==
    {br \in K : IsAncestor(br.sha, sha) /\ br # KeepBranch(sha)}

\* (mutant) the inner loop does not spare the keeper of sha itself
Superfluous_IncludesOwn(K, sha) == included_branches(K, sha)

\* (mutant) only the branches at a direct parent of sha are taken for
\* superfluous
Superfluous_DirectParentsOnly(K, sha) ==
    {br \in Branches(K) : <<Peel(br.sha), Peel(sha)>> \in Parents}

\* Parents of this branch are superfluous: the branches the inner loop of
\* Pass 2 deletes for sha
Superfluous(K, sha) == {br \in included_branches(K, sha) : br # KeepBranch(sha)}

\* (mutant) the count of including branches compared one too low: a branch
\* that only itself includes is taken for superfluous
SelfSuperfluous_CountsItself(K, ref, sha) ==
    /\ ~(ref.tag /\ is_annotated_tag(sha))
    /\ Cardinality(including_branches(K, sha)) > 0

\* (mutant) the count of including branches compared one too high
SelfSuperfluous_NeedsTwoOthers(K, ref, sha) ==
    /\ ~(ref.tag /\ is_annotated_tag(sha))
    /\ Cardinality(including_branches(K, sha)) > 2

\* This branch is superfluous if it is included in others
SelfSuperfluous(K, ref, sha) ==
    /\ ~(ref.tag /\ is_annotated_tag(sha))
    /\ Cardinality(including_branches(K, sha)) > 1

\* (mutant) the dropped transaction is committed
Rollback_CommitsOnDrop ==
    /\ ledger' = tx
    /\ tx' = tx
    /\ pc' = "idle"
    /\ idx' = 1
    /\ out' = NoOut
    /\ start' = NoStart
    /\ ev' = Event("abort", NoRef, "")
    /\ aborted' = (aborted \/ known # start.known)

\* The function returns before tx.commit(): the transaction is dropped,
\* which rolls it back
Rollback ==
    /\ ledger' = ledger
    /\ tx' = ledger
    /\ pc' = "idle"
    /\ idx' = 1
    /\ out' = NoOut
    /\ start' = NoStart
    /\ ev' = Event("abort", NoRef, "")
    /\ aborted' = (aborted \/ known # start.known)

\* git::delete_branch(repository, &br)? inside the inner loop of Pass 2
Pass2Delete ==
    /\ pc = "pass2"
    /\ idx <= Len(frontier)
    /\ LET ref == frontier[idx]
           sha == get_sha(fullname(ref))
       IN  /\ Superfluous(keepers, sha) # {}
           /\ \E br \in Superfluous(keepers, sha) :
                /\ keepers' = delete_branch(keepers, br)
                /\ ev' = Event("delete_branch", ref, br.sha)
    /\ UNCHANGED <<naming, aborted, known, dbExists, ledger, tx, pc, idx, out, now, date, runs,
                   pushes, start>>

\* the self check that ends an iteration of Pass 2; deleting a branch that
\* does not exist is an error of the backend
Pass2Self ==
    /\ pc = "pass2"
    /\ idx <= Len(frontier)
    /\ LET ref == frontier[idx]
           sha == get_sha(fullname(ref))
       IN  /\ Superfluous(keepers, sha) = {}
           /\ IF SelfSuperfluous(keepers, ref, sha)
              THEN IF KeepBranch(sha) \in keepers
                   THEN /\ keepers' = delete_branch(keepers, KeepBranch(sha))
                        /\ ev' = Event("delete_branch", ref, sha)
                        /\ Advance
                        /\ UNCHANGED <<ledger, tx, out, start, aborted>>
                   ELSE /\ Rollback
                        /\ keepers' = keepers
              ELSE /\ keepers' = keepers
                   /\ ev' = Event("keep", ref, sha)
                   /\ Advance
                   /\ UNCHANGED <<ledger, tx, out, start, aborted>>
    /\ UNCHANGED <<naming, known, dbExists, now, date, runs, pushes>>

\* tx.commit()?
Commit ==
    /\ pc = "commit"
    /\ ledger' = tx
    /\ pc' = "idle"
    /\ idx' = 1
    /\ out' = NoOut
    /\ start' = NoStart
    /\ ev' = Event("commit", NoRef, "")
    /\ UNCHANGED <<naming, aborted, known, keepers, dbExists, tx, now, date, runs, pushes>>

\* Any `?` of the run returns an error: the statement at pc fails and has no
\* effect
Fail ==
    /\ pc # "idle"
    /\ Rollback
    /\ UNCHANGED <<naming, known, keepers, dbExists, now, date, runs, pushes>>

Init ==
    /\ known = <<>>
    /\ keepers = {}
    /\ dbExists = FALSE
    /\ ledger = {}
    /\ tx = {}
    /\ pc = "idle"
    /\ idx = 1
    /\ out = NoOut
    /\ now = 0
    /\ date = 0
    /\ runs = 0
    /\ pushes = 0
    /\ ev = Event("none", NoRef, "")
    /\ start = NoStart
    /\ naming = NoNaming
    /\ aborted = FALSE

Next ==
    \/ Begin
    \/ Fetch
    \/ Close
    \/ Open
    \/ Pass1
    \/ Pass2Delete
    \/ Pass2Self
    \/ Commit
    \/ Fail

Spec == Init /\ [][Next]_vars

TypeOK ==
    /\ DOMAIN known \subseteq Refs
    /\ \A k \in keepers : k.sha \in Shas
    /\ pc \in {"idle", "fetch", "close", "open", "pass1", "pass2", "commit"}

----------------------------------------------------------------------------
(* Notions the properties are stated with *)

\* The objects a reference with target tip keeps alive: the tag object
\* itself if tip is one, the commit it names and all its ancestors.
Reach(tip) == {tip} \cup AncestorsOf(Peel(tip))

\* The targets of all references the backend holds: keepers and remote refs
SurvivingTips == {k.sha : k \in keepers} \cup Range(known)

\* The open rows of a Ref (name and kind) in a table
OpenRowsOf(rows, n, g) == {r \in rows : r.name = n /\ r.tag = g /\ IsOpen(r)}

----------------------------------------------------------------------------
(* C1 *)

\* C1: after any sequence of runs, committed or aborted, the ledger holds at
\* most one open row (to_date absent) per reference.  Stated per Ref (name
\* and kind), which the per-name reading of the claim implies.
C1_SingleOpenRow ==
    \A r \in Refs : Cardinality(OpenRowsOf(ledger, r.name, r.tag)) <= 1

----------------------------------------------------------------------------
(* C2 *)

\* C2: after every run, each commit id held by an open ledger row is
\* reachable from at least one surviving backend reference.
C2_ReachabilityPreserved ==
    pc = "idle" =>
        \A row \in ledger :
            IsOpen(row) => \E tip \in SurvivingTips : row.sha \in Reach(tip)

\* An open row whose ref is gone from the backend (its removal was fetched by
\* a run that aborted) and whose own keeper was pruned: only the keeper of a
\* descendant still holds its commit.
C2_Witness ==
    /\ pc = "idle"
    /\ \E row \in ledger :
         /\ IsOpen(row)
         /\ row.sha \notin Range(known)
         /\ \A k \in keepers : k.sha # row.sha
         /\ \E k \in keepers : row.sha \in Reach(k.sha)

----------------------------------------------------------------------------
(* C3 *)

\* No branch-style keeper is a strict ancestor of another one
Antichain(K) ==
    \A a, b \in Branches(K) : a # b => ~IsAncestor(a.sha, b.sha)

\* Pass 2 of the current run has completed, and it had refs to work on
Pass2Completed == pc = "commit" /\ frontier # <<>>

\* C3 as claimed: whenever Pass 2 of a run completes, the surviving
\* branch-style keepers form an antichain, whatever runs came before
\* (including runs that aborted between Pass 1 and the end of Pass 2).
C3_AntichainAfterAnyRuns == Pass2Completed => Antichain(keepers)

\* C3 (amended): whenever Pass 2 of a run completes, two surviving
\* branch-style keepers of which one is a strict ancestor of the other were
\* both there already when the run began; a run that completes Pass 2 adds
\* no ancestor-related pair, so keepers that formed an antichain at its
\* start form one at the end of its Pass 2.
C3_NoNewAncestorPair ==
    Pass2Completed =>
        \A a, b \in Branches(keepers) :
            (a # b /\ IsAncestor(a.sha, b.sha)) =>
                (a \in start.keepers /\ b \in start.keepers)

\* Pass 2 completed after it created a keeper and pruned an older one
C3_Witness ==
    /\ Pass2Completed
    /\ Branches(start.keepers) \ keepers # {}
    /\ Branches(keepers) \ start.keepers # {}
    /\ Antichain(keepers)

----------------------------------------------------------------------------
(* C4 - C7 *)

\* The step on which a run commits, and the step on which it returns an error
CommitStep == pc = "commit" /\ pc' = "idle" /\ ev'.op = "commit"
AbortStep == pc # "idle" /\ pc' = "idle" /\ ev'.op = "abort"

\* C4: when a run with timestamp T2 commits and reports as changed a ref
\* whose open row was opened at T1 < T2, that row has to_date = T2 afterwards
\* and the ref has a new open row with from_date = T2.
C4_IntervalAbutment ==
    [][CommitStep =>
        \A r \in Range(out.changed) :
            \A row \in OpenRowsOf(ledger, r.name, r.tag) :
                row.from_date < date =>
                    /\ [row EXCEPT !.to_date = Some(date)] \in ledger'
                    /\ row \notin ledger'
                    /\ Row(r.name, date, NULL, known[r], r.tag) \in ledger']_vars

\* C5: a ledger row that has a to_date never changes again.
C5_ClosedRowImmutable ==
    [][\A row \in ledger : ~IsOpen(row) => row \in ledger']_vars

\* C6: the close statement of a removed or changed ref whose name has no
\* open row makes the run fail.
C6_CloseWithoutOpenRowFails ==
    [][(/\ pc = "close"
        /\ idx <= Len(closeList)
        /\ \A row \in tx : row.name = closeList[idx].name => ~IsOpen(row))
       => AbortStep]_vars

\* C7: a run that fails before the ledger commit leaves the ledger as it was
\* when the run began, and leaves the keepers as the run had made them.
C7_LedgerAtomicOnFailure ==
    [][AbortStep => (ledger' = start.ledger /\ keepers' = keepers)]_vars

\* A run has failed after it had written rows and created keepers: keepers
\* exist, and no row was ever committed.
C7_Witness ==
    /\ pc = "idle"
    /\ ev.op = "abort"
    /\ keepers # {}
    /\ ledger = {}

----------------------------------------------------------------------------
(* The retention planner applied twice to one frontier *)

\* Any keepers earlier runs can have left
KeeperStates ==
    SUBSET ({KeepBranch(c) : c \in Commits} \cup {KeptTag(t) : t \in TagObjs})

\* A run stands before Pass 1 with some refs of the backend as its frontier
\* (all entered as new: the passes see changed and new refs alike), in any
\* order, and with any keepers.
InitPlanner ==
    /\ known \in RemoteStates
    /\ keepers \in KeeperStates
    /\ \E F \in SUBSET DOMAIN known :
         /\ F # {}
         /\ \E nw \in Orders(F) : out = [removed |-> <<>>, changed |-> <<>>, new |-> nw]
    /\ dbExists = TRUE
    /\ ledger = {}
    /\ tx = {}
    /\ pc = "pass1"
    /\ idx = 1
    /\ now = 0
    /\ date = 0
    /\ runs = 1
    /\ pushes = 0
    /\ ev = Event("none", NoRef, "")
    /\ start = [keepers |-> keepers, ledger |-> {}, known |-> known]
    /\ naming = NoNaming
    /\ aborted = FALSE

\* Pass 1 and Pass 2 are run a second time with the same frontier and the
\* same resolved commits, iterated in any order, from the keepers the first
\* application left
Again ==
    /\ pc = "commit"
    /\ runs = 1
    /\ runs' = 2
    /\ pc' = "pass1"
    /\ idx' = 1
    /\ \E nw \in Orders(Range(out.new)) : out' = [out EXCEPT !.new = nw]
    /\ start' = [start EXCEPT !.keepers = keepers]
    /\ ev' = Event("again", NoRef, "")
    /\ UNCHANGED <<naming, aborted, known, keepers, dbExists, ledger, tx, now, date, pushes>>

NextPlanner ==
    \/ Pass1
    \/ Pass2Delete
    \/ Pass2Self
    \/ Again

SpecPlanner == InitPlanner /\ [][NextPlanner]_vars

----------------------------------------------------------------------------
(* C8 *)

\* C8 as claimed: the second application of Pass 1 and Pass 2 performs no
\* backend mutation: the keepers are at every moment of it those the first
\* application left.
C8_RerunMutatesNothing == runs = 2 => keepers = start.keepers

\* C8 (amended): the second application deletes no keeper the first one
\* left, and when it completes the keepers are exactly those the first one
\* left; in between, Pass 1 may create again the keeper of a frontier commit
\* that Pass 2 of the first application had deleted, which Pass 2 then
\* deletes again.
C8_RerunRestoresKeepers ==
    (runs = 2 /\ pc # "idle") =>
        /\ start.keepers \subseteq keepers
        /\ pc = "commit" => keepers = start.keepers

\* The second application has completed, and its last step deleted a keeper
\* that its Pass 1 had created again
C8_Witness ==
    /\ runs = 2
    /\ pc = "commit"
    /\ ev.op = "delete_branch"
    /\ keepers = start.keepers

----------------------------------------------------------------------------
(* C9, C10 *)

\* C9: a tag-style keeper that exists, exists in every later state.
C9_TagKeepersStay ==
    [][\A k \in keepers : k.style = "tag" => k \in keepers']_vars

\* Pass 2 completed for a frontier commit that descends from the commit of a
\* tag-style keeper made by an earlier run: the branch keeper of the
\* descendant is there, and so is the tag-style keeper.
C9_Witness ==
    /\ Pass2Completed
    /\ \E k \in start.keepers, b \in Branches(keepers) \ start.keepers :
         /\ k.style = "tag"
         /\ k \in keepers
         /\ IsAncestor(k.sha, b.sha)

\* q is row r with, at most, another to_date
SameButToDate(r, q) == q = [r EXCEPT !.to_date = q.to_date]

\* Every row of the table is still there, up to its to_date
RowsKept(rows, rows2) ==
    /\ \A r \in rows : \E q \in rows2 : SameButToDate(r, q)
    /\ Cardinality(rows2) >= Cardinality(rows)

\* C10: no step removes a ledger row or changes the name, from_date,
\* commit id or kind of one, in the committed table and inside the
\* transaction alike; the keeper passes change no row at all.
C10_LedgerNeverRewritten ==
    [][/\ RowsKept(ledger, ledger')
       /\ (pc # "idle" /\ pc' # "idle") => RowsKept(tx, tx')
       /\ (pc \in {"pass1", "pass2"} /\ pc' # "idle") => tx' = tx
       /\ pc \in {"pass1", "pass2"} => ledger' = ledger]_vars

\* A committed ledger with a closed row and an open row of the same name
C10_Witness ==
    /\ pc = "idle"
    /\ ev.op = "commit"
    /\ \E r, q \in ledger : r.name = q.name /\ ~IsOpen(r) /\ IsOpen(q)

----------------------------------------------------------------------------
(* C11 *)

\* C11: for a ref the run reports as removed, the run sets to_date on the
\* ref's open row, inserts no row for it, and no keeper is created or
\* deleted on its account: every keeper mutation is made for a ref of the
\* frontier (changed and new).
C11_RemovalTouchesOnlyClose ==
    [][/\ (pc = "close" /\ idx <= Len(out.removed) /\ pc' # "idle") =>
            \A row \in OpenRowsOf(tx, out.removed[idx].name, out.removed[idx].tag) :
                /\ row \notin tx'
                /\ [row EXCEPT !.to_date = Some(date)] \in tx'
       /\ pc' # "idle" =>
            \A row \in tx' \ tx :
                IsOpen(row) => Ref(row.name, row.tag) \notin Range(out.removed)
       /\ keepers' # keepers =>
            ev'.ref \in Range(frontier) \ Range(out.removed)]_vars

----------------------------------------------------------------------------
(* Ref naming: strings run through parse_remote_ref and fullname *)

\* Longest text appended to a remote prefix
MaxTail == 3

RECURSIVE Strings(_, _)
\* The strings of at most n characters over an alphabet
Strings(A, n) ==
    IF n = 0 THEN {<<>>}
    ELSE Strings(A, n - 1) \cup
         {Append(s, c) : s \in {t \in Strings(A, n - 1) : Len(t) = n - 1}, c \in A}

\* What stands where a remote prefix is expected: "origin", its proper
\* prefixes, and strings that differ from it at one end
Heads ==
    {SubSeq(Origin, 1, k) : k \in 0..Len(Origin)}
        \cup {Origin \o <<"s">>, <<"m">> \o Origin, <<"u", "p">>}

\* The strings of the unit tests: origin/master, upstream/master, master, release
TestVectors ==
    {Origin \o <<"/", "m", "a", "s", "t", "e", "r">>,
     <<"u", "p", "s", "t", "r", "e", "a", "m", "/", "m", "a", "s", "t", "e", "r">>,
     <<"m", "a", "s", "t", "e", "r">>,
     <<"r", "e", "l", "e", "a", "s", "e">>}

\* The strings the conversions are applied to
RefNames ==
    TestVectors \cup {h \o t : h \in Heads, t \in Strings({"/", "m", "o"}, MaxTail)}

InitNaming ==
    /\ known = <<>>
    /\ keepers = {}
    /\ dbExists = FALSE
    /\ ledger = {}
    /\ tx = {}
    /\ pc = "idle"
    /\ idx = 1
    /\ out = NoOut
    /\ now = 0
    /\ date = 0
    /\ runs = 0
    /\ pushes = 0
    /\ ev = Event("none", NoRef, "")
    /\ start = NoStart
    /\ aborted = FALSE
    /\ \E s \in RefNames : naming = [NoNaming EXCEPT !.step = "input", !.refname = s]

Untouched ==
    UNCHANGED <<known, keepers, dbExists, ledger, tx, pc, idx, out, now, date,
                runs, pushes, ev, start, aborted>>

\* Ref::parse_remote_ref(refname)
Parse ==
    /\ naming.step = "input"
    /\ naming' = [naming EXCEPT !.step = "parsed",
                                !.parsed = parse_remote_ref(naming.refname)]
    /\ Untouched

\* fullname() of the Ref that parse_remote_ref returned
FullnameOfParsed ==
    /\ naming.step = "parsed"
    /\ naming.parsed.ok
    /\ naming' = [naming EXCEPT !.step = "full", !.full = fullname(naming.parsed.val)]
    /\ Untouched

\* fullname() of the tag Ref { name: refname, tag: true }
FullnameOfTag ==
    /\ naming.step = "input"
    /\ naming' = [naming EXCEPT !.step = "tagfull",
                                !.full = fullname(Ref(naming.refname, TRUE))]
    /\ Untouched

NextNaming ==
    \/ Parse
    \/ FullnameOfParsed
    \/ FullnameOfTag

SpecNaming == InitNaming /\ [][NextNaming]_vars

----------------------------------------------------------------------------
(* C12 *)

\* s contains a '/' and the text before its first '/' is "origin"
OriginBeforeFirstSlash(s) ==
    \E k \in 1..Len(s) :
        /\ s[k] = "/"
        /\ \A j \in 1..(k - 1) : s[j] # "/"
        /\ SubSeq(s, 1, k - 1) = Origin

----------------------------------------------------------------------------
(* C13 *)

\* C13: when Pass 2 of a run has completed, for every frontier ref and the
\* commit id sha it resolves to, no branch-style keeper other than
\* keep-<sha> has a tip that is an ancestor of sha.
C13_DescendantCollapsing ==
    Pass2Completed =>
        \A r \in Range(frontier) :
            \A k \in Branches(keepers) :
                k # KeepBranch(get_sha(fullname(r))) =>
                    ~IsAncestor(k.sha, get_sha(fullname(r)))

\* A fast-forward: a changed branch moved from S1 to a strict descendant S2;
\* keep-S1, there when the run began, is deleted and keep-S2 is there
C13_Witness ==
    /\ Pass2Completed
    /\ \E r \in Range(out.changed) :
         /\ ~r.tag
         /\ start.known[r] # known[r]
         /\ IsAncestor(start.known[r], known[r])
         /\ KeepBranch(start.known[r]) \in start.keepers \ keepers
         /\ KeepBranch(known[r]) \in keepers

----------------------------------------------------------------------------
(* C14 *)

\* The place of an operation in the sequence of one run
Rank(op) ==
    CASE op = "fetch" -> 1
      [] op = "close" -> 2
      [] op = "open" -> 3
      [] op \in {"make_ref", "make_branch"} -> 4
      [] op \in {"delete_branch", "keep"} -> 5
      [] op = "commit" -> 6
      [] OTHER -> 0

\* C14: within one run every ledger close precedes every ledger open, every
\* ledger statement precedes every keeper creation, every keeper creation
\* precedes every keeper deletion (and every self check of Pass 2), and the
\* ledger is committed only after the last backend mutation: the operations
\* of a run never step back in this order, a row is closed only by a close,
\* inserted only by an open, a keeper added only by a creation and removed
\* only by a deletion, and the committed ledger changes only on the step
\* that ends the run.
C14_StepOrdering ==
    [][/\ (pc # "idle" /\ pc' # "idle") =>
            /\ Rank(ev.op) <= Rank(ev'.op)
            /\ (\E row \in tx \ tx' : IsOpen(row)) => ev'.op = "close"
            /\ (\E row \in tx' \ tx : IsOpen(row)) => ev'.op = "open"
       /\ keepers' \ keepers # {} => ev'.op \in {"make_ref", "make_branch"}
       /\ keepers \ keepers' # {} => ev'.op = "delete_branch"
       /\ ledger' # ledger => (pc = "commit" /\ pc' = "idle" /\ keepers' = keepers)]_vars

\* A run stands before its commit after it closed rows, opened rows, created
\* the keepers of two or more frontier refs and, last, deleted a keeper
C14_Witness ==
    /\ pc = "commit"
    /\ ev.op = "delete_branch"
    /\ out.changed # <<>>
    /\ Len(frontier) >= 2
    /\ tx # ledger
    /\ keepers \ start.keepers # {}

----------------------------------------------------------------------------
(* C15 *)

\* C15: whenever the self check of Pass 2 calls delete_branch(keep-<sha>),
\* the branch keep-<sha> exists at that moment (so the call cannot fail for
\* a missing branch and make the run return an error).
C15_SelfDeleteFindsKeeper ==
    (pc = "pass2" /\ idx <= Len(frontier)) =>
        LET ref == frontier[idx]
            sha == get_sha(fullname(ref))
        IN  (Superfluous(keepers, sha) = {} /\ SelfSuperfluous(keepers, ref, sha))
                => KeepBranch(sha) \in keepers

----------------------------------------------------------------------------
(* C16 *)

\* The open rows of the ledger and the refs the backend knows agree: every
\* known ref has an open row with its commit id, and every open row is the
\* row of a known ref
LedgerMatchesKnown ==
    /\ \A r \in DOMAIN known :
         \E row \in OpenRowsOf(ledger, r.name, r.tag) : row.sha = known[r]
    /\ \A row \in ledger : IsOpen(row) => Ref(row.name, row.tag) \in DOMAIN known

\* C16: if a run returned an error after its fetch had advanced the refs the
\* backend knows, then after the next run that commits every known remote
\* ref has an open ledger row with its current commit id and every open
\* ledger row belongs to a known ref.
C16_NoLostObservation ==
    (pc = "idle" /\ ev.op = "commit" /\ aborted) => LedgerMatchesKnown

----------------------------------------------------------------------------
(* C17 *)

\* C17: between runs, whether they committed or returned an error, the commit
\* id of every committed ledger row, open or closed, is the target of a
\* surviving keeper or an ancestor of it (remote refs do not count).
C17_RecordedCommitsKept ==
    pc = "idle" =>
        \A row \in ledger : \E k \in keepers : row.sha \in Reach(k.sha)

\* After a run that returned an error, a closed row whose own keeper was
\* pruned is held by the keeper of a descendant only
C17_Witness ==
    /\ pc = "idle"
    /\ ev.op = "abort"
    /\ \E row \in ledger :
         /\ ~IsOpen(row)
         /\ \A k \in keepers : k.sha # row.sha
         /\ \E k \in keepers : row.sha \in Reach(k.sha)

----------------------------------------------------------------------------
(* C18 *)

\* C18: the close of a Ref changes only a row of that Ref: a row with its
\* name and its kind (branch or tag).
C18_CloseRespectsKind ==
    [][(pc = "close" /\ idx <= Len(closeList) /\ pc' # "idle") =>
            \A row \in tx \ tx' :
                /\ row.name = closeList[idx].name
                /\ row.tag = closeList[idx].tag]_vars

====
